---- MODULE Spec2Model ----
(***************************************************************************)
(* Model of ContactResultMaker::CalcContactResults of the                  *)
(* hydroelastic_collisions example (drake_ros_viz): the output-port        *)
(* calculator that flattens the contact surfaces and the point pairs of a  *)
(* geometry query into an lcmt_contact_results_for_viz message.            *)
(*                                                                         *)
(* A double is modelled by an exact rational <<numerator, denominator>>    *)
(* (denominator > 0, lowest terms); floating-point rounding of the         *)
(* arithmetic is not modelled.  A Vector3d is a triple of rationals.       *)
(***************************************************************************)
EXTENDS Integers, Sequences, FiniteSets, TLC

VARIABLES
  use_strict_hydro_,  \* const member of ContactResultMaker
  msg,                \* *results: the output object, reused from call to call
  time,               \* context.get_time() of the last call, in seconds
  called,             \* the query the last call made on the query object
  query_threw,        \* whether that query threw
  surfaces,           \* local std::vector<ContactSurface> of the last call
  points,             \* local std::vector<PenetrationAsPointPair> of the last call
  outcome,            \* how the last call ended
  held,               \* history: what the output object held before the last call
  pc,                 \* position of do_main in its stepping loop
  sim_time,           \* simulator_context.get_time(), in time units
  next_time,          \* the argument of simulator.AdvanceTo
  FLAGS_simulation_time,  \* flag of hydroelastic_collisions, in time units
  FLAGS_simulation_sec    \* flag of hydroelastic, in time units or Infinity

vars == <<use_strict_hydro_, msg, time, called, query_threw, surfaces, points, outcome,
          held, pc, sim_time, next_time, FLAGS_simulation_time, FLAGS_simulation_sec>>

\* the variables of the stepping loops of the two do_main
loop_vars == <<pc, sim_time, next_time, FLAGS_simulation_time, FLAGS_simulation_sec>>

\* the variables of ContactResultMaker
maker_vars == <<use_strict_hydro_, msg, time, called, query_threw, surfaces, points,
                outcome, held>>

(***************************** bounds **************************************)
MaxTick == 2       \* context times are 0 .. MaxTick steps of 3/4 microsecond
MaxFaces == 2      \* faces of a contact-surface mesh
MaxContacts == 2   \* contacts (surfaces and point pairs) in the query object
MaxSec == 12       \* the simulation_time and simulation_sec flags are 0 .. MaxSec units

(************************ double arithmetic ********************************)
Abs(n) == IF n < 0 THEN -n ELSE n

RECURSIVE GCD(_, _)
GCD(a, b) == IF b = 0 THEN a ELSE GCD(b, a % b)

\* the double n/d (d > 0), in lowest terms
Rat(n, d) == LET g == GCD(Abs(n), d) IN <<n \div g, d \div g>>

RAdd(x, y) == Rat(x[1] * y[2] + y[1] * x[2], x[2] * y[2])

RMul(x, y) == Rat(x[1] * y[1], x[2] * y[2])

\* x / c for a positive double c
RDiv(x, c) == Rat(x[1] * c[2], x[2] * c[1])

Vec(x, y, z) == <<Rat(x, 1), Rat(y, 1), Rat(z, 1)>>

VAdd(u, v) == [k \in 1..3 |-> RAdd(u[k], v[k])]

VDiv(u, c) == [k \in 1..3 |-> RDiv(u[k], c)]

\* the literal 1e6 of "context.get_time() * 1e6"
MicrosPerSecond == 1000000

\* variant: the double is rounded to the nearest integer (llround)
ToInt64_Nearest(x) ==
  IF x[1] >= 0 THEN (2 * x[1] + x[2]) \div (2 * x[2])
  ELSE -((2 * (-x[1]) + x[2]) \div (2 * x[2]))

\* conversion of a double to int64_t: the fractional part is discarded
ToInt64(x) == IF x[1] >= 0 THEN x[1] \div x[2] ELSE -((-x[1]) \div x[2])

(************************** the query object *******************************)
\* GeometryIds registered in do_main, and the names given to them
ball == 1
box == 2
can1 == 3
can2 == 4

Names == [id \in {ball, box, can1, can2} |->
            CASE id = ball -> "ball" [] id = box -> "box"
              [] id = can1 -> "can1" [] OTHER -> "can2"]

\* an identifier the inspector does not know
unregistered == 5

\* inspector().GetName(id): throws for an id that is not registered
GetNameThrows(id) == id \notin DOMAIN Names

GetName(id) == Names[id]

\* to_string(GeometryId)
to_string(id) == ToString(id)

\* A TriangleSurfaceMesh: vertices, elements (faces, three 0-based vertex
\* indices each) and the centroid the mesh stores
num_triangles(mesh_W) == Len(mesh_W.elements)

element(mesh_W, j) == mesh_W.elements[j + 1]

vertex(mesh_W, v) == mesh_W.vertices[v + 1]

\* SurfaceTriangle::vertex(k), k in 0..2
face_vertex(face, k) == face[k + 1]

\* the pressure field e_MN, one value per mesh vertex
EvaluateAtVertex(field, v) == field[v + 1]

\* the vertices and pressures of the meshes the query object may hold
MeshVertices == <<Vec(0, 0, 0), Vec(1, 0, 0), Vec(0, 1, 0), Vec(0, 0, -2)>>

MeshPressures == <<Rat(10, 1), Rat(20, 1), Rat(30, 1), Rat(5, 2)>>

\* face j of a mesh (0-based): three of the four vertices
FaceAt(j) == <<j % 4, (j + 1) % 4, (j + 2) % 4>>

\* the meshes of 1 .. MaxFaces faces
Meshes == {[vertices |-> MeshVertices, elements |-> [j \in 1..n |-> FaceAt(j - 1)],
            centroid |-> <<Rat(1, 3), Rat(1, 3), Rat(-1, 2)>>] : n \in 1..MaxFaces}

RECURSIVE SeqsUpTo(_, _)
SeqsUpTo(S, n) ==
  IF n = 0 THEN {<<>>}
  ELSE LET shorter == SeqsUpTo(S, n - 1)
       IN shorter \cup {Append(q, e) : q \in {r \in shorter : Len(r) = n - 1}, e \in S}

\* the ContactSurfaces of the scene: the ball against the box
ContactSurfaces == {[id_M |-> ball, id_N |-> box, mesh_W |-> m, e_MN |-> MeshPressures] :
                      m \in Meshes}

\* the PenetrationAsPointPairs of the scene
PointPairs ==
  { [id_A |-> ball, id_B |-> can1, p_WCa |-> Vec(0, 0, 1),
     p_WCb |-> <<Rat(0, 1), Rat(0, 1), Rat(4, 5)>>, nhat_BA_W |-> Vec(0, 0, 1)],
    [id_A |-> can2, id_B |-> ball, p_WCa |-> Vec(1, 0, 3),
     p_WCb |-> Vec(0, 1, 3), nhat_BA_W |-> Vec(-1, 0, 0)],
    [id_A |-> ball, id_B |-> unregistered, p_WCa |-> Vec(2, 2, 2),
     p_WCb |-> Vec(2, 2, 1), nhat_BA_W |-> Vec(0, 1, 0)],
    [id_A |-> unregistered, id_B |-> box, p_WCa |-> Vec(-1, 0, 0),
     p_WCb |-> Vec(-2, 0, 0), nhat_BA_W |-> Vec(0, 0, -1)] }

\* The state of the query object: the contacts of the scene that have a
\* hydroelastic representation and those that only have a point representation
QueryObjects == {q \in [hydro : SeqsUpTo(ContactSurfaces, MaxContacts),
                       point : SeqsUpTo(PointPairs, MaxContacts)] :
                   Len(q.hydro) + Len(q.point) <= MaxContacts}

\* QueryObject::ComputeContactSurfaces: fails on a contact that has no
\* hydroelastic representation
ComputeContactSurfaces(query_object) ==
  IF query_object.point # <<>>
  THEN [threw |-> TRUE, surfaces |-> <<>>, points |-> <<>>]
  ELSE [threw |-> FALSE, surfaces |-> query_object.hydro, points |-> <<>>]

\* QueryObject::ComputeContactSurfacesWithFallback: the contacts without a
\* hydroelastic representation come back as point pairs
ComputeContactSurfacesWithFallback(query_object) ==
  [threw |-> FALSE, surfaces |-> query_object.hydro, points |-> query_object.point]

\* the values of context.get_time()
Times == {RDiv(Rat(3 * k, 4), Rat(MicrosPerSecond, 1)) : k \in 0..MaxTick}

(************************** the message types ******************************)
Zero3 == Vec(0, 0, 0)

\* value-initialized lcmt_hydroelastic_contact_surface_tri_for_viz
DefaultTri == [p_WA |-> Zero3, p_WB |-> Zero3, p_WC |-> Zero3,
               pressure_A |-> Rat(0, 1), pressure_B |-> Rat(0, 1),
               pressure_C |-> Rat(0, 1)]

\* value-initialized lcmt_hydroelastic_quadrature_per_point_data_for_viz
DefaultQuad == [p_WQ |-> Zero3, vt_BqAq_W |-> Zero3, traction_Aq_W |-> Zero3]

\* value-initialized lcmt_hydroelastic_contact_surface_for_viz
DefaultSurface == [body1_name |-> "", body2_name |-> "", centroid_W |-> Zero3,
                   num_triangles |-> 0, triangles |-> <<>>,
                   num_quadrature_points |-> 0, quadrature_point_data |-> <<>>,
                   force_C_W |-> Zero3, moment_C_W |-> Zero3]

\* value-initialized lcmt_point_pair_contact_info_for_viz
DefaultInfo == [timestamp |-> 0, body1_name |-> "", body2_name |-> "",
                contact_point |-> Zero3, contact_force |-> Zero3, normal |-> Zero3]

\* value-initialized lcmt_contact_results_for_viz
DefaultResults == [timestamp |-> 0,
                   num_point_pair_contacts |-> 0, point_pair_contact_info |-> <<>>,
                   num_hydroelastic_contacts |-> 0, hydroelastic_contacts |-> <<>>]

\* variant: the vector only grows (elements beyond n are kept)
resize_KeepsTail(vec, n, default) ==
  [k \in 1..(IF n > Len(vec) THEN n ELSE Len(vec)) |->
     IF k <= Len(vec) THEN vec[k] ELSE default]

\* std::vector::resize: keeps the first n elements, appends value-initialized ones
resize(vec, n, default) == [k \in 1..n |-> IF k <= Len(vec) THEN vec[k] ELSE default]

\* the lambda write_double3
write_double3(src) == <<src[1], src[2], src[3]>>

(**************************** the encoder **********************************)
\* "msg.timestamp = context.get_time() * 1e6": the product, converted to int64_t
Timestamp(t) == ToInt64(RMul(t, Rat(MicrosPerSecond, 1)))

\* variant: the two counts are stored in each other's field
MessageHeader_SwappedCounts(results, t, num_surfaces, num_pairs) ==
  [results EXCEPT
     !.timestamp = Timestamp(t),
     !.num_point_pair_contacts = num_surfaces,
     !.point_pair_contact_info = resize(@, num_pairs, DefaultInfo),
     !.num_hydroelastic_contacts = num_pairs,
     !.hydroelastic_contacts = resize(@, num_surfaces, DefaultSurface)]

\* the head of the message: timestamp, counts and array sizes
MessageHeader(results, t, num_surfaces, num_pairs) ==
  [results EXCEPT
     !.timestamp = Timestamp(t),
     !.num_point_pair_contacts = num_pairs,
     !.point_pair_contact_info = resize(@, num_pairs, DefaultInfo),
     !.num_hydroelastic_contacts = num_surfaces,
     !.hydroelastic_contacts = resize(@, num_surfaces, DefaultSurface)]

\* variant: one quadrature point per triangle vertex
SurfaceHeader_PerVertex(surface_msg, surface) ==
  LET named == [surface_msg EXCEPT
                  !.body1_name = "Id_" \o to_string(surface.id_M),
                  !.body2_name = "Id_" \o to_string(surface.id_N)]
      sized == [named EXCEPT
                  !.num_triangles = num_triangles(surface.mesh_W),
                  !.triangles = resize(@, num_triangles(surface.mesh_W), DefaultTri),
                  !.centroid_W = write_double3(surface.mesh_W.centroid)]
  IN [sized EXCEPT
        !.num_quadrature_points = 3 * sized.num_triangles,
        !.quadrature_point_data = resize(@, 3 * sized.num_triangles, DefaultQuad)]

\* the head of one surface record: names, counts and array sizes
SurfaceHeader(surface_msg, surface) ==
  LET named == [surface_msg EXCEPT
                  !.body1_name = "Id_" \o to_string(surface.id_M),
                  !.body2_name = "Id_" \o to_string(surface.id_N)]
      sized == [named EXCEPT
                  !.num_triangles = num_triangles(surface.mesh_W),
                  !.triangles = resize(@, num_triangles(surface.mesh_W), DefaultTri),
                  !.centroid_W = write_double3(surface.mesh_W.centroid)]
  IN [sized EXCEPT
        !.num_quadrature_points = sized.num_triangles,
        !.quadrature_point_data = resize(@, sized.num_triangles, DefaultQuad)]

\* variant: the third pressure is read at the second vertex
TriMsg_PressureSlip(tri_msg, mesh_W, field, j) ==
  LET face == element(mesh_W, j)
      vA == vertex(mesh_W, face_vertex(face, 0))
      vB == vertex(mesh_W, face_vertex(face, 1))
      vC == vertex(mesh_W, face_vertex(face, 2))
  IN [tri_msg EXCEPT
        !.p_WA = write_double3(vA),
        !.p_WB = write_double3(vB),
        !.p_WC = write_double3(vC),
        !.pressure_A = EvaluateAtVertex(field, face_vertex(face, 0)),
        !.pressure_B = EvaluateAtVertex(field, face_vertex(face, 1)),
        !.pressure_C = EvaluateAtVertex(field, face_vertex(face, 1))]

\* the triangle record of face j (0-based)
TriMsg(tri_msg, mesh_W, field, j) ==
  LET face == element(mesh_W, j)
      vA == vertex(mesh_W, face_vertex(face, 0))
      vB == vertex(mesh_W, face_vertex(face, 1))
      vC == vertex(mesh_W, face_vertex(face, 2))
  IN [tri_msg EXCEPT
        !.p_WA = write_double3(vA),
        !.p_WB = write_double3(vB),
        !.p_WC = write_double3(vC),
        !.pressure_A = EvaluateAtVertex(field, face_vertex(face, 0)),
        !.pressure_B = EvaluateAtVertex(field, face_vertex(face, 1)),
        !.pressure_C = EvaluateAtVertex(field, face_vertex(face, 2))]

\* variant: the sum of the three vertices is halved
QuadMsg_Halved(quad_msg, mesh_W, j) ==
  LET face == element(mesh_W, j)
      vA == vertex(mesh_W, face_vertex(face, 0))
      vB == vertex(mesh_W, face_vertex(face, 1))
      vC == vertex(mesh_W, face_vertex(face, 2))
  IN [quad_msg EXCEPT
        !.p_WQ = write_double3(VDiv(VAdd(VAdd(vA, vB), vC), Rat(2, 1))),
        !.vt_BqAq_W = write_double3(<<Rat(0, 1), Rat(1, 5), Rat(0, 1)>>),
        !.traction_Aq_W = write_double3(<<Rat(0, 1), Rat(-1, 5), Rat(0, 1)>>)]

\* the quadrature record of face j (0-based)
QuadMsg(quad_msg, mesh_W, j) ==
  LET face == element(mesh_W, j)
      vA == vertex(mesh_W, face_vertex(face, 0))
      vB == vertex(mesh_W, face_vertex(face, 1))
      vC == vertex(mesh_W, face_vertex(face, 2))
  IN [quad_msg EXCEPT
        !.p_WQ = write_double3(VDiv(VAdd(VAdd(vA, vB), vC), Rat(3, 1))),
        !.vt_BqAq_W = write_double3(<<Rat(0, 1), Rat(1, 5), Rat(0, 1)>>),
        !.traction_Aq_W = write_double3(<<Rat(0, 1), Rat(-1, 5), Rat(0, 1)>>)]

\* one iteration of the loop over the contact surfaces
SurfaceMsg(surface_msg, surface) ==
  LET head == SurfaceHeader(surface_msg, surface)
      mesh_W == surface.mesh_W
  IN [head EXCEPT
        !.triangles = [k \in 1..Len(head.triangles) |->
                         IF k <= head.num_triangles
                         THEN TriMsg(head.triangles[k], mesh_W, surface.e_MN, k - 1)
                         ELSE head.triangles[k]],
        !.quadrature_point_data = [k \in 1..Len(head.quadrature_point_data) |->
                         IF k <= head.num_triangles
                         THEN QuadMsg(head.quadrature_point_data[k], mesh_W, k - 1)
                         ELSE head.quadrature_point_data[k]],
        !.force_C_W = write_double3(Vec(1, 0, 0)),
        !.moment_C_W = write_double3(Vec(0, 0, 1))]

\* variant: the contact point is the near-point on the first body
InfoMsg_NearPoint(info_msg, pair, timestamp) ==
  LET stamped == [info_msg EXCEPT !.timestamp = timestamp]
  IN IF GetNameThrows(pair.id_A) THEN [info |-> stamped, threw |-> TRUE]
     ELSE LET named1 == [stamped EXCEPT !.body1_name = GetName(pair.id_A)]
          IN IF GetNameThrows(pair.id_B) THEN [info |-> named1, threw |-> TRUE]
             ELSE LET named2 == [named1 EXCEPT !.body1_name = GetName(pair.id_B)]
                  IN [info |-> [named2 EXCEPT
                                  !.contact_point = write_double3(pair.p_WCa),
                                  !.contact_force = write_double3(pair.nhat_BA_W),
                                  !.normal = write_double3(pair.nhat_BA_W)],
                      threw |-> FALSE]

\* variant: the record does not get the timestamp of the message
InfoMsg_Unstamped(info_msg, pair, timestamp) ==
  IF GetNameThrows(pair.id_A) THEN [info |-> info_msg, threw |-> TRUE]
  ELSE LET named1 == [info_msg EXCEPT !.body1_name = GetName(pair.id_A)]
       IN IF GetNameThrows(pair.id_B) THEN [info |-> named1, threw |-> TRUE]
          ELSE LET named2 == [named1 EXCEPT !.body1_name = GetName(pair.id_B)]
                   contact_point == VDiv(VAdd(pair.p_WCa, pair.p_WCb), Rat(2, 1))
               IN [info |-> [named2 EXCEPT
                               !.contact_point = write_double3(contact_point),
                               !.contact_force = write_double3(pair.nhat_BA_W),
                               !.normal = write_double3(pair.nhat_BA_W)],
                   threw |-> FALSE]

\* one iteration of the loop over the point pairs; GetName may throw, which
\* leaves the record as far as it was written
InfoMsg(info_msg, pair, timestamp) ==
  LET stamped == [info_msg EXCEPT !.timestamp = timestamp]
  IN IF GetNameThrows(pair.id_A) THEN [info |-> stamped, threw |-> TRUE]
     ELSE LET named1 == [stamped EXCEPT !.body1_name = GetName(pair.id_A)]
          IN IF GetNameThrows(pair.id_B) THEN [info |-> named1, threw |-> TRUE]
             ELSE LET named2 == [named1 EXCEPT !.body1_name = GetName(pair.id_B)]
                      contact_point == VDiv(VAdd(pair.p_WCa, pair.p_WCb), Rat(2, 1))
                  IN [info |-> [named2 EXCEPT
                                  !.contact_point = write_double3(contact_point),
                                  !.contact_force = write_double3(pair.nhat_BA_W),
                                  !.normal = write_double3(pair.nhat_BA_W)],
                      threw |-> FALSE]

\* variant: a failed lookup abandons the record and the loop goes on
RECURSIVE PointPairLoop_SkipRecord(_, _, _, _)
PointPairLoop_SkipRecord(m, pts, i, failed) ==
  IF i >= m.num_point_pair_contacts THEN [msg |-> m, threw |-> failed]
  ELSE LET r == InfoMsg(m.point_pair_contact_info[i + 1], pts[i + 1], m.timestamp)
           written == [m EXCEPT !.point_pair_contact_info[i + 1] = r.info]
       IN PointPairLoop_SkipRecord(written, pts, i + 1, failed \/ r.threw)

PointPairLoop_AbortRecord(m, pts, i) == PointPairLoop_SkipRecord(m, pts, i, FALSE)

\* the loop over the point pairs from index i (0-based) on
RECURSIVE PointPairLoop(_, _, _)
PointPairLoop(m, pts, i) ==
  IF i >= m.num_point_pair_contacts THEN [msg |-> m, threw |-> FALSE]
  ELSE LET r == InfoMsg(m.point_pair_contact_info[i + 1], pts[i + 1], m.timestamp)
           written == [m EXCEPT !.point_pair_contact_info[i + 1] = r.info]
       IN IF r.threw THEN [msg |-> written, threw |-> TRUE]
          ELSE PointPairLoop(written, pts, i + 1)

\* the loop over the contact surfaces
SurfaceLoop(m, surfs) ==
  [m EXCEPT !.hydroelastic_contacts =
     [k \in 1..Len(m.hydroelastic_contacts) |->
        IF k <= m.num_hydroelastic_contacts
        THEN SurfaceMsg(m.hydroelastic_contacts[k], surfs[k])
        ELSE m.hydroelastic_contacts[k]]]

\* variant: the fallback query is made whatever the mode
Query_AlwaysFallback(strict, query_object) ==
  [called |-> "ComputeContactSurfacesWithFallback"]
    @@ ComputeContactSurfacesWithFallback(query_object)

\* the query CalcContactResults makes
Query(strict, query_object) ==
  IF strict
  THEN [called |-> "ComputeContactSurfaces"] @@ ComputeContactSurfaces(query_object)
  ELSE [called |-> "ComputeContactSurfacesWithFallback"]
         @@ ComputeContactSurfacesWithFallback(query_object)

\* variant: the timestamp is stored before the query is made
CalcContactResults_StampFirst(results, strict, t, query_object) ==
  LET q == Query(strict, query_object)
      stamped == [results EXCEPT !.timestamp = Timestamp(t)]
  IN IF q.threw
     THEN [msg |-> stamped, called |-> q.called, query_threw |-> TRUE,
           surfaces |-> q.surfaces, points |-> q.points,
           outcome |-> "EngineQueryError"]
     ELSE LET head == MessageHeader(stamped, t, Len(q.surfaces), Len(q.points))
              pairs == PointPairLoop(SurfaceLoop(head, q.surfaces), q.points, 0)
          IN [msg |-> pairs.msg, called |-> q.called, query_threw |-> FALSE,
              surfaces |-> q.surfaces, points |-> q.points,
              outcome |-> IF pairs.threw THEN "NameLookupError" ELSE "returned"]

\* ContactResultMaker::CalcContactResults on the output object results
CalcContactResults(results, strict, t, query_object) ==
  LET q == Query(strict, query_object)
  IN IF q.threw
     THEN [msg |-> results, called |-> q.called, query_threw |-> TRUE,
           surfaces |-> q.surfaces, points |-> q.points,
           outcome |-> "EngineQueryError"]
     ELSE LET head == MessageHeader(results, t, Len(q.surfaces), Len(q.points))
              pairs == PointPairLoop(SurfaceLoop(head, q.surfaces), q.points, 0)
          IN [msg |-> pairs.msg, called |-> q.called, query_threw |-> FALSE,
              surfaces |-> q.surfaces, points |-> q.points,
              outcome |-> IF pairs.threw THEN "NameLookupError" ELSE "returned"]

(************************** the state machine ******************************)
\* ContactResultMaker(use_strict_hydro) with its value-initialized output
InitMaker ==
  /\ use_strict_hydro_ \in BOOLEAN
  /\ msg = DefaultResults
  /\ time = Rat(0, 1)
  /\ called = "none"
  /\ query_threw = FALSE
  /\ surfaces = <<>>
  /\ points = <<>>
  /\ outcome = "none"

\* no stepping loop is followed
LoopIdle ==
  /\ pc = "idle"
  /\ sim_time = 0
  /\ next_time = 0
  /\ FLAGS_simulation_time = 0
  /\ FLAGS_simulation_sec = 0

Init ==
  /\ InitMaker
  /\ held = "untracked"
  /\ LoopIdle

\* History of a call: what the output object held before it, against what
\* the call wrote ("more": more records in its two arrays than the call left
\* in them)
Held(before, after) ==
  IF Len(before.hydroelastic_contacts) + Len(before.point_pair_contact_info)
       > Len(after.hydroelastic_contacts) + Len(after.point_pair_contact_info)
  THEN "more"
  ELSE "not more"

\* An evaluation of the contact_result output port during AdvanceTo.  do_main
\* catches nothing: an exception thrown by the calculator ends the program.
EvalContactResultWith(tracked) ==
  /\ outcome \in {"none", "returned"}
  /\ \E t \in Times, query_object \in QueryObjects :
    \E r \in {CalcContactResults(msg, use_strict_hydro_, t, query_object)} :
       /\ msg' = r.msg
       /\ time' = t
       /\ called' = r.called
       /\ query_threw' = r.query_threw
       /\ surfaces' = r.surfaces
       /\ points' = r.points
       /\ outcome' = r.outcome
       /\ held' = IF tracked THEN Held(msg, r.msg) ELSE held
       /\ UNCHANGED use_strict_hydro_
       /\ UNCHANGED loop_vars

EvalContactResult == EvalContactResultWith(FALSE)

Next == EvalContactResult

Spec == Init /\ [][Next]_vars

\* the same calls, with the history of the output object recorded
InitHistory ==
  /\ InitMaker
  /\ held = "not more"
  /\ LoopIdle

EvalContactResultOnHeld == EvalContactResultWith(TRUE)

NextHistory == EvalContactResultOnHeld

SpecHistory == InitHistory /\ [][NextHistory]_vars

(************************* the stepping loops ******************************)
\* Times of the simulators are counted in units of 1/UnitsPerSecond second
UnitsPerSecond == 20

\* the step of both loops, 0.1 s ("+ 0.1", "constexpr double kStep{0.1}")
kStep == UnitsPerSecond \div 10

\* the greatest simulator time that is told apart; it stands for every later time
TimeCap == MaxSec + 2 * kStep

Saturated(t) == IF t > TimeCap THEN TimeCap ELSE t

\* the ContactResultMaker takes no step
MakerIdle ==
  /\ InitMaker
  /\ held = "untracked"

(* do_main of hydroelastic_collisions: "while (true) AdvanceTo(time + 0.1)" *)
InitCollisions ==
  /\ MakerIdle
  /\ pc = "while"
  /\ sim_time = 0
  /\ next_time = 0
  /\ FLAGS_simulation_time \in 0..MaxSec
  /\ FLAGS_simulation_sec = 0

\* "while (true)": the argument simulator_context.get_time() + 0.1
CollisionsWhile ==
  /\ pc = "while"
  /\ TRUE
  /\ next_time' = Saturated(sim_time + kStep)
  /\ pc' = "AdvanceTo"
  /\ UNCHANGED <<sim_time, FLAGS_simulation_time, FLAGS_simulation_sec>>
  /\ UNCHANGED maker_vars

\* simulator.AdvanceTo(boundary_time) inside the loop
CollisionsAdvanceTo ==
  /\ pc = "AdvanceTo"
  /\ sim_time' = next_time
  /\ pc' = "while"
  /\ UNCHANGED <<next_time, FLAGS_simulation_time, FLAGS_simulation_sec>>
  /\ UNCHANGED maker_vars

\* The statements after the loop, "simulator.AdvanceTo(FLAGS_simulation_time);
\* return 0;".  No statement leaves "while (true)", so no step reaches
\* pc = "after loop" and the two are no part of NextCollisions.
CollisionsFinalAdvanceTo ==
  /\ pc = "after loop"
  /\ sim_time' = FLAGS_simulation_time
  /\ pc' = "return"
  /\ UNCHANGED <<next_time, FLAGS_simulation_time, FLAGS_simulation_sec>>
  /\ UNCHANGED maker_vars

CollisionsReturn ==
  /\ pc = "return"
  /\ pc' = "returned"
  /\ UNCHANGED <<sim_time, next_time, FLAGS_simulation_time, FLAGS_simulation_sec>>
  /\ UNCHANGED maker_vars

NextCollisions == CollisionsWhile \/ CollisionsAdvanceTo

\* do_main runs on its own thread and is never suspended for ever
SpecCollisions == InitCollisions /\ [][NextCollisions]_vars /\ WF_vars(NextCollisions)

(* do_main of hydroelastic: "while (time < simulation_sec) AdvanceTo(min(..))" *)
\* std::numeric_limits<double>::infinity(), the default of simulation_sec;
\* every time of the model is finite and not negative
Infinity == -1

IsInfinite(x) == x = Infinity

\* "a < b" on doubles, for a finite a
Less(a, b) == IsInfinite(b) \/ a < b

\* std::min(a, b) == (b < a) ? b : a, for a finite b
Min(a, b) == IF ~IsInfinite(a) /\ ~(b < a) THEN a ELSE b

NextTime_NoMin(simulation_sec, t) == t + kStep

\* "std::min(FLAGS_simulation_sec, simulator_context.get_time() + kStep)"
NextTime(simulation_sec, t) == Min(simulation_sec, t + kStep)

InitHydroelastic ==
  /\ MakerIdle
  /\ pc = "while"
  /\ sim_time = 0
  /\ next_time = 0
  /\ FLAGS_simulation_time = 0
  /\ FLAGS_simulation_sec \in (0..MaxSec) \cup {Infinity}

\* the loop condition holds: next_time is computed
HydroelasticWhile ==
  /\ pc = "while"
  /\ Less(sim_time, FLAGS_simulation_sec)
  /\ next_time' = Saturated(NextTime(FLAGS_simulation_sec, sim_time))
  /\ pc' = "AdvanceTo"
  /\ UNCHANGED <<sim_time, FLAGS_simulation_time, FLAGS_simulation_sec>>
  /\ UNCHANGED maker_vars

\* simulator.AdvanceTo(next_time)
HydroelasticAdvanceTo ==
  /\ pc = "AdvanceTo"
  /\ sim_time' = next_time
  /\ pc' = "while"
  /\ UNCHANGED <<next_time, FLAGS_simulation_time, FLAGS_simulation_sec>>
  /\ UNCHANGED maker_vars

\* the loop condition fails: "return 0"
HydroelasticReturn ==
  /\ pc = "while"
  /\ ~Less(sim_time, FLAGS_simulation_sec)
  /\ pc' = "returned"
  /\ UNCHANGED <<sim_time, next_time, FLAGS_simulation_time, FLAGS_simulation_sec>>
  /\ UNCHANGED maker_vars

NextHydroelastic == HydroelasticWhile \/ HydroelasticAdvanceTo \/ HydroelasticReturn

\* do_main runs on its own thread and is never suspended for ever
SpecHydroelastic ==
  InitHydroelastic /\ [][NextHydroelastic]_vars /\ WF_vars(NextHydroelastic)

(****************************** properties *********************************)
\* the last call wrote the message (it got past the query)
Wrote == outcome \in {"returned", "NameLookupError"}

\* the last call produced a message
Produced == outcome = "returned"

\* C1: every produced message has num_hydroelastic_contacts equal to the
\* length of hydroelastic_contacts and to the number of surfaces the query
\* returned, and num_point_pair_contacts equal to the length of
\* point_pair_contact_info and to the number of point pairs the query
\* returned; with no surfaces and no pairs both counts are 0 and both arrays
\* are empty.
C1_CountsMatchArrays ==
  /\ msg.num_hydroelastic_contacts = Len(msg.hydroelastic_contacts)
  /\ msg.num_point_pair_contacts = Len(msg.point_pair_contact_info)
  /\ Wrote =>
       /\ msg.num_hydroelastic_contacts = Len(surfaces)
       /\ msg.num_point_pair_contacts = Len(points)
       /\ (surfaces = <<>> /\ points = <<>>) =>
            /\ msg.num_hydroelastic_contacts = 0
            /\ msg.num_point_pair_contacts = 0
            /\ msg.hydroelastic_contacts = <<>>
            /\ msg.point_pair_contact_info = <<>>

\* a message was produced from a surface and a point pair
C1_Witness ==
  /\ Produced
  /\ Len(surfaces) = 1
  /\ Len(points) = 1
  /\ msg.num_hydroelastic_contacts = 1
  /\ msg.num_point_pair_contacts = 1

\* C2: in every surface record of a produced message num_triangles is the
\* number of faces of the input mesh and num_triangles = len(triangles) =
\* num_quadrature_points = len(quadrature_point_data).
C2_TriangleCounts ==
  Wrote =>
    \A i \in 1..Len(msg.hydroelastic_contacts) :
      LET surface_msg == msg.hydroelastic_contacts[i]
      IN /\ surface_msg.num_triangles = Len(surfaces[i].mesh_W.elements)
         /\ surface_msg.num_triangles = Len(surface_msg.triangles)
         /\ surface_msg.num_triangles = surface_msg.num_quadrature_points
         /\ surface_msg.num_triangles = Len(surface_msg.quadrature_point_data)

\* a message was produced with a surface record of two triangles
C2_Witness ==
  /\ Produced
  /\ \E i \in 1..Len(msg.hydroelastic_contacts) :
       /\ Len(surfaces[i].mesh_W.elements) = 2
       /\ msg.hydroelastic_contacts[i].num_triangles = 2

\* C3: for every point pair between two bodies whose names differ, the
\* record has body1_name = the name of the first identifier and body2_name =
\* the name of the second identifier, so the two names are different strings.
C3_BothNamesResolved ==
  Produced =>
    \A i \in 1..Len(points) :
      LET info_msg == msg.point_pair_contact_info[i]
      IN Names[points[i].id_A] # Names[points[i].id_B] =>
           /\ info_msg.body1_name = Names[points[i].id_A]
           /\ info_msg.body2_name = Names[points[i].id_B]
           /\ info_msg.body1_name # info_msg.body2_name

\* t seconds in microseconds, as a fraction <<numerator, denominator>>
MicrosOf(t) == <<t[1] * MicrosPerSecond, t[2]>>

\* the simulation time of the last call in microseconds
TimeMicros == MicrosOf(time)

\* C4 (as stated): the message timestamp is the time in microseconds rounded
\* to the nearest integer.
C4_TimestampRounded ==
  Wrote => 2 * TimeMicros[2] * msg.timestamp <= 2 * TimeMicros[1] + TimeMicros[2]
           /\ 2 * TimeMicros[1] + TimeMicros[2] < 2 * TimeMicros[2] * (msg.timestamp + 1)

\* C4 (amended): the message timestamp is the time in microseconds with its
\* fractional part discarded: timestamp <= t * 1e6 < timestamp + 1.
C4_TimestampTruncated ==
  Wrote => /\ TimeMicros[2] * msg.timestamp <= TimeMicros[1]
           /\ TimeMicros[1] < TimeMicros[2] * (msg.timestamp + 1)

\* a message was produced at a time whose microseconds have a fractional
\* part of one half or more
C4_Witness ==
  /\ Produced
  /\ 2 * (TimeMicros[1] % TimeMicros[2]) >= TimeMicros[2]
  /\ msg.timestamp >= 1

\* C5: in strict mode only the pure contact-surface query is called and the
\* message has no point-pair record; in non-strict mode the fallback query is
\* called and the message holds one record per surface and per point pair
\* that query returned, in its order.
C5_QueryByMode ==
  /\ use_strict_hydro_ =>
       /\ called \in {"none", "ComputeContactSurfaces"}
       /\ points = <<>>
       /\ msg.num_point_pair_contacts = 0
       /\ msg.point_pair_contact_info = <<>>
  /\ ~use_strict_hydro_ =>
       /\ called \in {"none", "ComputeContactSurfacesWithFallback"}
       /\ Produced =>
            /\ Len(msg.hydroelastic_contacts) = Len(surfaces)
            /\ Len(msg.point_pair_contact_info) = Len(points)
            /\ \A i \in 1..Len(surfaces) :
                 /\ msg.hydroelastic_contacts[i].num_triangles
                      = Len(surfaces[i].mesh_W.elements)
                 /\ msg.hydroelastic_contacts[i].centroid_W
                      = surfaces[i].mesh_W.centroid
            /\ \A i \in 1..Len(points) :
                 msg.point_pair_contact_info[i].normal = points[i].nhat_BA_W

\* a non-strict call produced a message with a surface and a point pair
C5_Witness ==
  /\ ~use_strict_hydro_
  /\ called = "ComputeContactSurfacesWithFallback"
  /\ Produced
  /\ surfaces # <<>>
  /\ points # <<>>

\* C6: output triangle j of a surface is built from input face j: p_WA, p_WB,
\* p_WC are the positions of the face's vertices 0, 1, 2 and pressure_A,
\* pressure_B, pressure_C the field values at those vertex indices; no face
\* is dropped, duplicated or reordered.
C6_TrianglesFromFaces ==
  Wrote =>
    \A i \in 1..Len(surfaces) :
      LET mesh == surfaces[i].mesh_W
          tris == msg.hydroelastic_contacts[i].triangles
      IN /\ Len(tris) = Len(mesh.elements)
         /\ \A j \in 1..Len(mesh.elements) :
              LET f == mesh.elements[j]
              IN /\ tris[j].p_WA = mesh.vertices[f[1] + 1]
                 /\ tris[j].p_WB = mesh.vertices[f[2] + 1]
                 /\ tris[j].p_WC = mesh.vertices[f[3] + 1]
                 /\ tris[j].pressure_A = surfaces[i].e_MN[f[1] + 1]
                 /\ tris[j].pressure_B = surfaces[i].e_MN[f[2] + 1]
                 /\ tris[j].pressure_C = surfaces[i].e_MN[f[3] + 1]

\* a message was produced from a mesh of two different faces
C6_Witness ==
  /\ Produced
  /\ \E i \in 1..Len(surfaces) :
       /\ Len(surfaces[i].mesh_W.elements) = 2
       /\ surfaces[i].mesh_W.elements[1] # surfaces[i].mesh_W.elements[2]
       /\ msg.hydroelastic_contacts[i].triangles[2].pressure_C
            = surfaces[i].e_MN[surfaces[i].mesh_W.elements[2][3] + 1]

\* 3 * p = a + b + c for fractions p, a, b, c
ThriceIsSum(p, a, b, c) ==
  3 * p[1] * a[2] * b[2] * c[2]
    = p[2] * (a[1] * b[2] * c[2] + b[1] * a[2] * c[2] + c[1] * a[2] * b[2])

\* C7: the quadrature record of face j has p_WQ equal to the mean of the
\* three vertex positions of face j: 3 * p_WQ = vA + vB + vC componentwise.
C7_QuadratureAtCentroid ==
  Wrote =>
    \A i \in 1..Len(surfaces) :
      LET mesh == surfaces[i].mesh_W
          quads == msg.hydroelastic_contacts[i].quadrature_point_data
      IN /\ Len(quads) = Len(mesh.elements)
         /\ \A j \in 1..Len(mesh.elements) : \A k \in 1..3 :
              ThriceIsSum(quads[j].p_WQ[k],
                          mesh.vertices[mesh.elements[j][1] + 1][k],
                          mesh.vertices[mesh.elements[j][2] + 1][k],
                          mesh.vertices[mesh.elements[j][3] + 1][k])

\* a message was produced with a quadrature point that has the coordinate 1/3
\* (the triangle (0,0,0), (1,0,0), (0,1,0))
C7_Witness ==
  /\ Produced
  /\ \E i \in 1..Len(surfaces) :
       /\ surfaces[i].mesh_W.elements[1] = <<0, 1, 2>>
       /\ msg.hydroelastic_contacts[i].quadrature_point_data[1].p_WQ
            = <<<<1, 3>>, <<1, 3>>, <<0, 1>>>>

\* 2 * p = a + b for fractions p, a, b
TwiceIsSum(p, a, b) == 2 * p[1] * a[2] * b[2] = p[2] * (a[1] * b[2] + b[1] * a[2])

\* C8: record i of the point pairs has contact_point = (p_WCa + p_WCb) / 2 and
\* contact_force = normal = the normal of pair i; the records are in the
\* order of the pairs.
C8_PairGeometry ==
  Produced =>
    /\ Len(msg.point_pair_contact_info) = Len(points)
    /\ \A i \in 1..Len(points) :
         LET info_msg == msg.point_pair_contact_info[i]
         IN /\ \A k \in 1..3 :
                 TwiceIsSum(info_msg.contact_point[k], points[i].p_WCa[k],
                            points[i].p_WCb[k])
            /\ info_msg.contact_force = points[i].nhat_BA_W
            /\ info_msg.normal = points[i].nhat_BA_W

\* a message was produced from two different point pairs, one of them the
\* pair with near-points (0,0,1) and (0,0,4/5)
C8_Witness ==
  /\ Produced
  /\ Len(points) = 2
  /\ points[1] # points[2]
  /\ \E i \in 1..2 : msg.point_pair_contact_info[i].contact_point
                       = <<<<0, 1>>, <<0, 1>>, <<9, 10>>>>

\* C9: when the strict contact-surface query fails, CalcContactResults fails
\* with that error and the output message is left exactly as it was before
\* the call.
C9_EngineFailureLeavesMessage ==
  [][query_threw' => (outcome' = "EngineQueryError" /\ msg' = msg)]_vars

\* a strict query failed at time 0 while the output object held an earlier
\* message with a surface and a later timestamp
C9_Witness ==
  /\ use_strict_hydro_
  /\ called = "ComputeContactSurfaces"
  /\ query_threw
  /\ outcome = "EngineQueryError"
  /\ TimeMicros[1] = 0
  /\ msg.timestamp >= 1
  /\ msg.num_hydroelastic_contacts >= 1

\* the inspector knows no name for one of the identifiers of the pair
Unresolvable(pair) == pair.id_A \notin DOMAIN Names \/ pair.id_B \notin DOMAIN Names

\* the index of the first pair with an identifier without a name
FirstUnresolvable(pts) ==
  CHOOSE f \in 1..Len(pts) :
    Unresolvable(pts[f]) /\ \A k \in 1..(f - 1) : ~Unresolvable(pts[k])

\* the record holds the contact point and the normal of the pair
PairRecordMade(info_msg, pair) ==
  /\ \A k \in 1..3 : TwiceIsSum(info_msg.contact_point[k], pair.p_WCa[k], pair.p_WCb[k])
  /\ info_msg.contact_force = pair.nhat_BA_W
  /\ info_msg.normal = pair.nhat_BA_W

\* the surface records of the message are those of the surfaces
SurfaceRecordsMade(m, surfs) ==
  /\ Len(m.hydroelastic_contacts) = Len(surfs)
  /\ \A i \in 1..Len(surfs) :
       /\ m.hydroelastic_contacts[i].num_triangles = Len(surfs[i].mesh_W.elements)
       /\ Len(m.hydroelastic_contacts[i].triangles) = Len(surfs[i].mesh_W.elements)

\* C10 (as stated): when the body-name lookup fails for an identifier of a
\* point pair, the encoding fails with a lookup error and only that record is
\* aborted: the timestamp, the surface records and the records of the other
\* pairs of the message are still produced.
C10_OnlyRecordAborted ==
  (\E k \in 1..Len(points) : Unresolvable(points[k])) =>
    /\ outcome = "NameLookupError"
    /\ TimeMicros[2] * msg.timestamp <= TimeMicros[1]
    /\ TimeMicros[1] < TimeMicros[2] * (msg.timestamp + 1)
    /\ SurfaceRecordsMade(msg, surfaces)
    /\ Len(msg.point_pair_contact_info) = Len(points)
    /\ \A k \in 1..Len(points) :
         ~Unresolvable(points[k]) => PairRecordMade(msg.point_pair_contact_info[k], points[k])

\* C10 (amended): when the body-name lookup fails for an identifier of a
\* point pair, the call fails with a lookup error and is aborted at that pair:
\* the timestamp, the counts, the surface records and the records of the
\* pairs before it are written, the contact point, force and normal of the
\* failing pair's record and the whole records of the later pairs are left as
\* they were (the earlier message's, or value-initialized).
C10_WholeCallAborted ==
  [][(\E k \in 1..Len(points') : Unresolvable(points'[k])) =>
       LET f == FirstUnresolvable(points')
           info == msg'.point_pair_contact_info
           old(k) == IF k <= Len(msg.point_pair_contact_info)
                     THEN msg.point_pair_contact_info[k] ELSE DefaultInfo
       IN /\ outcome' = "NameLookupError"
          /\ time'[2] * msg'.timestamp <= MicrosOf(time')[1]
          /\ MicrosOf(time')[1] < time'[2] * (msg'.timestamp + 1)
          /\ msg'.num_hydroelastic_contacts = Len(surfaces')
          /\ msg'.num_point_pair_contacts = Len(points')
          /\ SurfaceRecordsMade(msg', surfaces')
          /\ Len(info) = Len(points')
          /\ \A k \in 1..(f - 1) : PairRecordMade(info[k], points'[k])
          /\ info[f].timestamp = msg'.timestamp
          /\ info[f].contact_point = old(f).contact_point
          /\ info[f].contact_force = old(f).contact_force
          /\ info[f].normal = old(f).normal
          /\ \A k \in (f + 1)..Len(points') : info[k] = old(k)]_vars

\* a lookup failed on the first of two pairs, and the record of the second
\* pair still holds what an earlier message left there
C10_Witness ==
  /\ outcome = "NameLookupError"
  /\ Len(points) = 2
  /\ Unresolvable(points[1])
  /\ ~Unresolvable(points[2])
  /\ msg.point_pair_contact_info[2] # DefaultInfo
  /\ ~PairRecordMade(msg.point_pair_contact_info[2], points[2])

\* the message a call at time t leaves in a value-initialized output object
\* when the query returns the surfaces surfs and the point pairs pts
FreshMessage(t, surfs, pts) ==
  PointPairLoop(SurfaceLoop(MessageHeader(DefaultResults, t, Len(surfs), Len(pts)),
                            surfs), pts, 0).msg

\* C11: the encoder keeps no state across calls.  Whatever the reused output
\* object held, the message a call produces is the one the same call would
\* leave in a fresh object: it depends only on the call's time and query
\* results; and a call with the time and query results of the call before it
\* gives the identical message.
C11_NoStateAcrossCalls ==
  /\ [](Produced => msg = FreshMessage(time, surfaces, points))
  /\ [][(Produced /\ Produced' /\ time' = time /\ surfaces' = surfaces
                  /\ points' = points) => msg' = msg]_vars

\* a message was produced in an output object that held an earlier message
\* with more records
C11_Witness ==
  /\ Produced
  /\ held = "more"
  /\ msg.timestamp >= 1

\* C12: in every produced message each point-pair record carries the
\* timestamp of the message.
C12_RecordTimestamps ==
  Produced =>
    \A i \in 1..Len(msg.point_pair_contact_info) :
      msg.point_pair_contact_info[i].timestamp = msg.timestamp

\* a message with a timestamp of 1 or more was produced with two point-pair
\* records
C12_Witness ==
  /\ Produced
  /\ msg.timestamp >= 1
  /\ Len(points) = 2
  /\ msg.point_pair_contact_info[2].timestamp = msg.timestamp

\* C13: in hydroelastic_collisions the simulation runs for the duration of
\* the simulation_time flag and then do_main returns: the simulator time never
\* passes simulation_time, the loop is left, and the final
\* AdvanceTo(simulation_time) and the return are reached.
C13_RunsForSimulationTime ==
  /\ [](sim_time <= FLAGS_simulation_time)
  /\ <>(pc = "returned" /\ sim_time = FLAGS_simulation_time)

\* the argument of the pending AdvanceTo is min(simulation_sec, time + 0.1);
\* times past TimeCap are not told apart
TargetIsMin ==
  pc = "AdvanceTo" =>
    \/ /\ FLAGS_simulation_sec # Infinity
       /\ FLAGS_simulation_sec <= sim_time + kStep
       /\ next_time = FLAGS_simulation_sec
    \/ /\ FLAGS_simulation_sec = Infinity \/ sim_time + kStep < FLAGS_simulation_sec
       /\ sim_time + kStep <= TimeCap
       /\ next_time = sim_time + kStep
    \/ /\ sim_time + kStep > TimeCap
       /\ next_time = TimeCap

\* C14: in hydroelastic every AdvanceTo target is
\* min(simulation_sec, time + 0.1), so the time never passes simulation_sec;
\* for a finite simulation_sec >= 0 the loop ends with the time equal to
\* simulation_sec; for the infinite default it never ends: do_main does not
\* return and AdvanceTo is called again and again.
C14_StepsToSimulationSec ==
  /\ [](TargetIsMin)
  /\ [](FLAGS_simulation_sec # Infinity => sim_time <= FLAGS_simulation_sec)
  /\ <>(\/ FLAGS_simulation_sec = Infinity
        \/ pc = "returned" /\ sim_time = FLAGS_simulation_sec)
  /\ [](FLAGS_simulation_sec = Infinity => pc # "returned")
  /\ []<>(FLAGS_simulation_sec = Infinity => pc = "AdvanceTo")

\* the loop has ended at a simulation_sec that is no multiple of the step,
\* after at least two whole steps
C14_Witness ==
  /\ pc = "returned"
  /\ sim_time = FLAGS_simulation_sec
  /\ FLAGS_simulation_sec > 2 * kStep
  /\ FLAGS_simulation_sec % kStep # 0
  /\ next_time = FLAGS_simulation_sec

====
